---- MODULE Spec2Model ----
(***************************************************************************)
(* URL shortener (main.py): create_short_url and redirect_to_url running   *)
(* as concurrent request handlers over one sqlite table `urls`.            *)
(*                                                                         *)
(* Strings are sequences of one-character strings.  Every sqlite call      *)
(* (shortcode_exists, save_url, get_url, increment_count) opens its own    *)
(* connection and commits, so each is one atomic step; a handler is a      *)
(* sequence of such steps and handlers interleave between them.            *)
(* Time is counted in ticks, TicksPerSec of them to a second; the stored   *)
(* expiry string has second precision (strftime "%Y-%m-%dT%H:%M:%SZ").     *)
(***************************************************************************)
EXTENDS Integers, Sequences, FiniteSets, TLC

(* ------------------------------ bounds --------------------------------- *)

\* number of requests (handler invocations) that run concurrently
NumRequests == 2

\* clock resolution: ticks per second (datetime.now() has sub-second digits)
TicksPerSec == 2

(* ------------------------- program constants --------------------------- *)

MinValidity == 1
MaxValidity == 525600
MinCodeLen == 3
MaxCodeLen == 20
MaxAttempts == 10
SecondsPerMinute == 60

MinuteTicks == SecondsPerMinute * TicksPerSec

(* ----------------------------- characters ------------------------------ *)

AsciiLetters == {"a", "b", "c", "f", "x", "Y", "Z", "B", "z"}
AsciiDigits == {"0", "1", "2", "3", "9"}
\* a letter outside ASCII (e with acute accent), written by its code point
EAcute == "U+00E9"
NonAsciiAlnum == {EAcute}
\* string.ascii_letters + string.digits
chars == AsciiLetters \cup AsciiDigits

\* str.isalnum(): non-empty and every character is a letter or a digit in
\* the Unicode sense, which includes letters outside ASCII
isalnum(s) ==
  /\ Len(s) > 0
  /\ \A i \in 1..Len(s) : s[i] \in AsciiLetters \cup AsciiDigits \cup NonAsciiAlnum

IsAsciiAlnum(s) == \A i \in 1..Len(s) : s[i] \in AsciiLetters \cup AsciiDigits

\* str.startswith(prefix)
startswith(s, prefix) ==
  /\ Len(s) >= Len(prefix)
  /\ SubSeq(s, 1, Len(prefix)) = prefix

HttpPrefix == <<"h", "t", "t", "p", ":", "/", "/">>
HttpsPrefix == <<"h", "t", "t", "p", "s", ":", "/", "/">>

(* ------------------------------- inputs -------------------------------- *)

UrlX == HttpPrefix \o <<"x">>
UrlPage == HttpsPrefix \o <<"e", "/", "p">>
UrlNot == <<"n", "o", "t", "-", "a", "-", "u", "r", "l">>
UrlFtp == <<"f", "t", "p", ":", "/", "/", "x">>
NoUrl == <<>>

CodeAb == <<"a", "b">>
CodeAbc == <<"a", "b", "c">>
CodeBang == <<"a", "-", "1", "!">>
CodeCafe == <<"c", "a", "f", EAcute>>
Code20 == [i \in 1..MaxCodeLen |-> "a"]
Code21 == [i \in 1..(MaxCodeLen + 1) |-> "a"]
CodeR1 == <<"a", "B", "c", "1", "2", "3">>
CodeR2 == <<"Z", "z", "9", "0", "x", "Y">>
Empty == <<>>

\* the outcomes of generate_shortcode() the model draws from
RandomCodes == {CodeR1, CodeR2}

\* shortcode field of URLRequest: None, or a string
None == [given |-> FALSE, s |-> Empty]
Str(s) == [given |-> TRUE, s |-> s]


Requests == 1..NumRequests

\* a POST /shorturls body
Body(url, validity, sc) == [op |-> "POST", url |-> url, validity |-> validity, shortcode |-> sc]

\* bodies that pass validation: no shortcode, the empty one, custom ones at
\* both length limits, one with a letter outside ASCII, one that
\* generate_shortcode() can also produce; both validity limits
ValidBodies ==
  {Body(UrlX, MinValidity, None), Body(UrlX, MinValidity, Str(Empty)),
   Body(UrlX, MinValidity, Str(CodeAbc)), Body(UrlPage, MaxValidity, Str(CodeAbc)),
   Body(UrlX, MinValidity, Str(CodeCafe)), Body(UrlPage, MaxValidity, Str(Code20)),
   Body(UrlX, MinValidity, Str(CodeR1))}

\* bodies with a bad url, a bad validity or a bad shortcode, alone and
\* together with good and bad values of the other fields
InvalidBodies ==
  {Body(UrlNot, MinValidity, None), Body(UrlFtp, 0, Str(CodeAbc)),
   Body(UrlX, 0, None), Body(UrlX, MaxValidity + 1, Str(CodeAb)),
   Body(UrlX, MinValidity, Str(CodeAb)), Body(UrlX, MinValidity, Str(CodeBang)),
   Body(UrlPage, MaxValidity, Str(Code21))}

CreateRequests == ValidBodies \cup InvalidBodies

\* GET /{shortcode} paths
RedirectCodes == {CodeAbc, CodeAb}
RedirectRequests ==
  [op : {"GET"}, url : {NoUrl}, validity : {0}, shortcode : {Str(c) : c \in RedirectCodes}]

NoRequest == [op |-> "none", url |-> NoUrl, validity |-> 0, shortcode |-> None]

\* the instants datetime.now() is read at: inside a second, one validity
\* minute after the start of that second, and just after that
ClockValues == {1, MinuteTicks, MinuteTicks + 1}

\* a row of the table urls
Record(code, url, expiry, access_count) ==
  [shortcode |-> code, url |-> url, expiry |-> expiry, access_count |-> access_count]

\* url_shortener.db outlives the process (CREATE TABLE IF NOT EXISTS): the
\* table at start is empty or holds rows an earlier run left behind
InitialTables ==
  {{},
   {Record(CodeAbc, UrlPage, SecondsPerMinute, 1),
    Record(CodeR1, UrlX, SecondsPerMinute, 0),
    Record(CodeR2, UrlPage, MaxValidity * SecondsPerMinute, 2)}}

(* ------------------------------- state --------------------------------- *)

VARIABLES
  urls,        \* table urls: the set of its rows
  clock,       \* datetime.now(), in ticks
  pc,          \* per request: where its handler stands
  request,     \* per request: the URLRequest body or the path parameter
  shortcode,   \* create_short_url local: the code chosen
  attempts,    \* create_short_url local: collisions counted by the loop
  generated,   \* calls of generate_shortcode() made by the handler
  now,         \* per request: the value datetime.now() returned to it
  expiry_str,  \* create_short_url local: formatted expiry, in seconds
  result,      \* redirect_to_url local: the row get_url returned
  response     \* per request: what the handler answered

vars ==
  <<urls, clock, pc, request, shortcode, attempts, generated, now, expiry_str, result, response>>

NoRow == [found |-> FALSE, url |-> NoUrl, expiry |-> 0, access_count |-> 0]
Row(rec) ==
  [found |-> TRUE, url |-> rec.url, expiry |-> rec.expiry, access_count |-> rec.access_count]

NoExpiry == 0 - 1
NoTime == 0 - 1
NoResponse ==
  [status |-> 0, detail |-> "", shortLink |-> Empty, expiry |-> NoExpiry, location |-> NoUrl]

\* raise HTTPException(status_code, detail)
HTTPException(status_code, detail) ==
  [status |-> status_code, detail |-> detail, shortLink |-> Empty,
   expiry |-> NoExpiry, location |-> NoUrl]

\* URLResponse(shortLink = base_url/shortcode, expiry = expiry_str), status 200
URLResponse(code, expiry) ==
  [status |-> 200, detail |-> "", shortLink |-> code, expiry |-> expiry, location |-> NoUrl]

\* RedirectResponse(url = url, status_code = 302)
RedirectResponse(url) ==
  [status |-> 302, detail |-> "", shortLink |-> Empty, expiry |-> NoExpiry, location |-> url]

(* ---------------------------- time and text ---------------------------- *)

\* strftime("%Y-%m-%dT%H:%M:%SZ"): the instant cut to whole seconds
strftime(t) == t \div TicksPerSec

\* strptime(expiry_str, "%Y-%m-%dT%H:%M:%SZ"): the instant of that second
strptime(sec) == sec * TicksPerSec

\* the validity taken as seconds: timedelta(seconds = validity)
timedelta_seconds(validity) == validity * TicksPerSec

\* datetime.now() + timedelta(minutes = validity)
timedelta(validity) == validity * MinuteTicks

(* ------------------------------ the store ------------------------------ *)

\* the existence test inverted
shortcode_missing(code) == ~\E row \in urls : row.shortcode = code

\* SELECT 1 FROM urls WHERE shortcode = ?
shortcode_exists(code) == \E row \in urls : row.shortcode = code

\* the SELECT without its WHERE clause: the first row of the table
get_first_row(code) ==
  IF urls # {} THEN Row(CHOOSE row \in urls : TRUE) ELSE NoRow

\* SELECT url, expiry, access_count FROM urls WHERE shortcode = ?
\* (fetchone: one of the rows that match, None when there is none)
get_url(code) ==
  IF \E row \in urls : row.shortcode = code
    THEN Row(CHOOSE row \in urls : row.shortcode = code)
    ELSE NoRow

Init ==
  /\ urls \in InitialTables
  /\ clock = 1
  /\ pc = [r \in Requests |-> "idle"]
  /\ request = [r \in Requests |-> NoRequest]
  /\ shortcode = [r \in Requests |-> Empty]
  /\ attempts = [r \in Requests |-> 0]
  /\ generated = [r \in Requests |-> 0]
  /\ now = [r \in Requests |-> NoTime]
  /\ expiry_str = [r \in Requests |-> NoExpiry]
  /\ result = [r \in Requests |-> NoRow]
  /\ response = [r \in Requests |-> NoResponse]


(* ------------------------------ arrival -------------------------------- *)

\* requests are numbered in their order of arrival (handlers are
\* interchangeable, so this loses no behaviour)
Arrives(r) == pc[r] = "idle" /\ \A q \in Requests : q < r => pc[q] # "idle"

(* --------------------------- create_short_url -------------------------- *)

\* request.url.startswith(('http://', 'https://'))
ValidUrl(url) == startswith(url, HttpPrefix) \/ startswith(url, HttpsPrefix)

\* the lower limit tested with < 0
ValidValidityFromZero(validity) == ~(validity < 0 \/ validity > MaxValidity)

\* not (request.validity < 1 or request.validity > 525600)
ValidValidity(validity) == ~(validity < MinValidity \/ validity > MaxValidity)

\* `if request.shortcode:` -- None and the empty string are both false
Provided(sc) == sc.given /\ Len(sc.s) > 0

\* not (len(request.shortcode) < 3 or len(request.shortcode) > 20)
ValidLength(s) == ~(Len(s) < MinCodeLen \/ Len(s) > MaxCodeLen)

\* the checks made before the store is touched: the HTTPException raised,
\* or NoResponse when the request passes them
Validate(req) ==
  IF ~ValidUrl(req.url) THEN HTTPException(400, "Invalid URL format")
  ELSE IF ~ValidValidity(req.validity) THEN HTTPException(400, "Invalid validity period")
  ELSE IF ~Provided(req.shortcode) THEN NoResponse
  ELSE IF ~ValidLength(req.shortcode.s)
    THEN HTTPException(400, "Shortcode must be 3-20 characters")
  ELSE IF ~isalnum(req.shortcode.s)
    THEN HTTPException(400, "Shortcode must be alphanumeric")
  ELSE NoResponse

\* a request arrives and is validated; a valid one goes on to the custom
\* shortcode check or to the random shortcode loop (attempts = 0)
CreateBegin(r) ==
  /\ Arrives(r)
  /\ \E req \in CreateRequests :
       /\ request' = [request EXCEPT ![r] = req]
       /\ response' = [response EXCEPT ![r] = Validate(req)]
       /\ pc' = [pc EXCEPT ![r] =
            IF Validate(req) # NoResponse THEN "done"
            ELSE IF Provided(req.shortcode) THEN "exists" ELSE "generate"]
  /\ attempts' = [attempts EXCEPT ![r] = 0]
  /\ UNCHANGED <<urls, clock, shortcode, generated, now, expiry_str, result>>

\* custom shortcode: shortcode_exists(request.shortcode), then either
\* "Shortcode already taken" or shortcode = request.shortcode
CreateCustom(r) ==
  /\ pc[r] = "exists"
  /\ IF shortcode_exists(request[r].shortcode.s)
       THEN /\ response' = [response EXCEPT ![r] = HTTPException(400, "Shortcode already taken")]
            /\ pc' = [pc EXCEPT ![r] = "done"]
            /\ UNCHANGED shortcode
       ELSE /\ shortcode' = [shortcode EXCEPT ![r] = request[r].shortcode.s]
            /\ pc' = [pc EXCEPT ![r] = "expiry"]
            /\ UNCHANGED response
  /\ UNCHANGED <<urls, clock, request, attempts, generated, now, expiry_str, result>>

\* the loop test written `while attempts <= 10`
LoopContinuesOneMore(n) == n <= MaxAttempts

\* the loop written `while True`
LoopForever(n) == TRUE

\* the loop test `while attempts < 10`
LoopContinues(n) == n < MaxAttempts

\* one pass of the loop: generate_shortcode(), shortcode_exists(shortcode),
\* break or attempts += 1; the loop's else branch raises 500
CreateGenerate(r) ==
  /\ pc[r] = "generate"
  /\ LoopContinues(attempts[r])
  /\ \E code \in RandomCodes :
       /\ shortcode' = [shortcode EXCEPT ![r] = code]
       /\ generated' = [generated EXCEPT ![r] = @ + 1]
       /\ IF ~shortcode_exists(code)
            THEN /\ pc' = [pc EXCEPT ![r] = "expiry"]
                 /\ UNCHANGED <<attempts, response>>
            ELSE /\ attempts' = [attempts EXCEPT ![r] = @ + 1]
                 /\ IF LoopContinues(attempts[r] + 1)
                      THEN UNCHANGED <<pc, response>>
                      ELSE /\ pc' = [pc EXCEPT ![r] = "done"]
                           /\ response' = [response EXCEPT ![r] =
                                HTTPException(500, "Could not generate shortcode")]
  /\ UNCHANGED <<urls, clock, request, now, expiry_str, result>>

\* expiry_time = datetime.now() + timedelta(minutes = request.validity);
\* expiry_str = expiry_time.strftime(...)
CreateExpiry(r) ==
  /\ pc[r] = "expiry"
  /\ now' = [now EXCEPT ![r] = clock]
  /\ expiry_str' = [expiry_str EXCEPT ![r] = strftime(clock + timedelta(request[r].validity))]
  /\ pc' = [pc EXCEPT ![r] = "save"]
  /\ UNCHANGED <<urls, clock, request, shortcode, attempts, generated, result, response>>

\* the table declared without PRIMARY KEY: every INSERT goes through
InsertUnconstrained(code) == TRUE

\* shortcode TEXT PRIMARY KEY: the INSERT is refused when the key is present
InsertAllowed(code) == \A row \in urls : row.shortcode # code

\* the column declared access_count INTEGER DEFAULT 1
InsertedCountingFromOne(code, url, expiry) == urls \cup {Record(code, url, expiry, 1)}

\* INSERT INTO urls (shortcode, url, expiry) VALUES (?, ?, ?);
\* access_count INTEGER DEFAULT 0
Inserted(code, url, expiry) == urls \cup {Record(code, url, expiry, 0)}

\* save_url(shortcode, request.url, expiry_str) and the response; the
\* sqlite3.IntegrityError of a refused INSERT is re-raised by save_url and
\* turned into 500 "Internal server error" by `except Exception`
CreateSave(r) ==
  /\ pc[r] = "save"
  /\ IF InsertAllowed(shortcode[r])
       THEN /\ urls' = Inserted(shortcode[r], request[r].url, expiry_str[r])
            /\ response' = [response EXCEPT ![r] = URLResponse(shortcode[r], expiry_str[r])]
       ELSE /\ response' = [response EXCEPT ![r] = HTTPException(500, "Internal server error")]
            /\ UNCHANGED urls
  /\ pc' = [pc EXCEPT ![r] = "done"]
  /\ UNCHANGED <<clock, request, shortcode, attempts, generated, now, expiry_str, result>>

(* --------------------------- redirect_to_url --------------------------- *)

\* a GET arrives; result = get_url(shortcode); 404 when there is no row
RedirectGet(r) ==
  /\ Arrives(r)
  /\ \E req \in RedirectRequests :
       /\ request' = [request EXCEPT ![r] = req]
       /\ result' = [result EXCEPT ![r] = get_url(req.shortcode.s)]
       /\ IF get_url(req.shortcode.s).found
            THEN /\ pc' = [pc EXCEPT ![r] = "check"]
                 /\ UNCHANGED response
            ELSE /\ pc' = [pc EXCEPT ![r] = "done"]
                 /\ response' = [response EXCEPT ![r] = HTTPException(404, "Short URL not found")]
  /\ UNCHANGED <<urls, clock, shortcode, attempts, generated, now, expiry_str>>

\* the comparison written with >=
IsExpiredAtExpiry(instant, expiry_time) == instant >= expiry_time

\* the comparison with a second of grace after the expiry
IsExpiredAfterGrace(instant, expiry_time) == instant > expiry_time + TicksPerSec

\* datetime.now() > expiry_time
IsExpired(instant, expiry_time) == instant > expiry_time

\* expiry_time = strptime(expiry_str); 410 when the clock has passed it
RedirectCheck(r) ==
  /\ pc[r] = "check"
  /\ now' = [now EXCEPT ![r] = clock]
  /\ IF IsExpired(clock, strptime(result[r].expiry))
       THEN /\ pc' = [pc EXCEPT ![r] = "done"]
            /\ response' = [response EXCEPT ![r] = HTTPException(410, "Short URL has expired")]
       ELSE /\ pc' = [pc EXCEPT ![r] = "increment"]
            /\ UNCHANGED response
  /\ UNCHANGED <<urls, clock, request, shortcode, attempts, generated, expiry_str, result>>

\* the increment done by the handler from the row it read: write back
\* access_count + 1 of `result`
increment_from_read(r) ==
  urls' = {IF row.shortcode = request[r].shortcode.s
             THEN [row EXCEPT !.access_count = result[r].access_count + 1]
             ELSE row : row \in urls}

\* the UPDATE written without its WHERE clause: every row is counted
increment_every_row(r) ==
  urls' = {[row EXCEPT !.access_count = @ + 1] : row \in urls}

\* UPDATE urls SET access_count = access_count + 1 WHERE shortcode = ?
increment_count(r) ==
  urls' = {IF row.shortcode = request[r].shortcode.s
             THEN [row EXCEPT !.access_count = @ + 1]
             ELSE row : row \in urls}

\* increment_count(shortcode); return RedirectResponse(url = url, 302)
RedirectIncrement(r) ==
  /\ pc[r] = "increment"
  /\ increment_count(r)
  /\ response' = [response EXCEPT ![r] = RedirectResponse(result[r].url)]
  /\ pc' = [pc EXCEPT ![r] = "done"]
  /\ UNCHANGED <<clock, request, shortcode, attempts, generated, now, expiry_str, result>>

(* -------------------------------- clock -------------------------------- *)

\* time passes: the clock never goes back
Tick ==
  /\ \E t \in ClockValues : t > clock /\ clock' = t
  /\ UNCHANGED <<urls, pc, request, shortcode, attempts, generated, now, expiry_str, result, response>>

Next ==
  \/ \E r \in Requests : CreateBegin(r)
  \/ \E r \in Requests : CreateCustom(r)
  \/ \E r \in Requests : CreateGenerate(r)
  \/ \E r \in Requests : CreateExpiry(r)
  \/ \E r \in Requests : CreateSave(r)
  \/ \E r \in Requests : RedirectGet(r)
  \/ \E r \in Requests : RedirectCheck(r)
  \/ \E r \in Requests : RedirectIncrement(r)
  \/ Tick

Spec == Init /\ [][Next]_vars

(* ------------------------------ scheduling ----------------------------- *)

\* the next statement of the handler of a request that has been received
Step(r) ==
  \/ CreateCustom(r)
  \/ CreateGenerate(r)
  \/ CreateExpiry(r)
  \/ CreateSave(r)
  \/ RedirectCheck(r)
  \/ RedirectIncrement(r)

\* the server runs every handler it has started: no handler waits for
\* another one, and each call of sqlite returns
FairSpec == Spec /\ \A r \in Requests : WF_vars(Step(r))

(* ------------------------------- logging ------------------------------- *)

\* what requests.post does: it returns a response with a status code, or
\* it raises (ConnectionError, Timeout after timeout = 5)
Sends ==
  { [raises |-> FALSE, status_code |-> 200],
    [raises |-> FALSE, status_code |-> 500],
    [raises |-> TRUE, status_code |-> 0] }

\* str.lower() on the argument texts used here
lower(text) ==
  CASE text = "Frontend" -> "frontend"
    [] text = "WARN" -> "warn"
    [] text = "DB" -> "db"
    [] OTHER -> text

\* the arguments log is given: the ones of the call sites, other spellings
\* of them, and texts outside the three lists
Stacks == {"backend", "Frontend", "mobile"}
Levels == {"info", "WARN", "error", "trace"}
Packages == {"handler", "DB", "service", "auth"}

stacks == {"backend", "frontend"}
levels == {"debug", "info", "warn", "error", "fatal"}
backend_packages ==
  {"cache", "controller", "cron_job", "db", "domain", "handler", "repository", "route", "service"}

\* how a call of log ends: it returns a bool or it raises; `sent` tells
\* whether requests.post was called
Returned(value, sent) == [raised |-> FALSE, value |-> value, sent |-> sent]
Raised == [raised |-> TRUE, value |-> FALSE, sent |-> TRUE]

\* the statements inside `try:` of LoggingMiddleware.log
try_body(stack, level, package, send) ==
  IF lower(stack) \notin stacks THEN Returned(FALSE, FALSE)
  ELSE IF lower(level) \notin levels THEN Returned(FALSE, FALSE)
  ELSE IF lower(package) \notin backend_packages THEN Returned(FALSE, FALSE)
  ELSE IF send.raises THEN Raised
  ELSE Returned(send.status_code = 200, TRUE)

\* log written without its try/except
log_unguarded(stack, level, package, send) == try_body(stack, level, package, send)

\* LoggingMiddleware.log: `except Exception` prints and returns False
log(stack, level, package, send) ==
  IF try_body(stack, level, package, send).raised
    THEN Returned(FALSE, try_body(stack, level, package, send).sent)
    ELSE try_body(stack, level, package, send)

\* log_info, log_warn, log_error: the value of log is dropped, an exception
\* of log would go on to the caller
log_info(package, send) == log("backend", "info", package, send).raised
log_warn(package, send) == log("backend", "warn", package, send).raised
log_error(package, send) == log("backend", "error", package, send).raised

\* some call of app_logger made by the handlers and the db helpers raises
LogRaises(send) ==
  \E package \in {"handler", "db"} :
    log_info(package, send) \/ log_warn(package, send) \/ log_error(package, send)

\* an exception of a log call leaves the handler: `except Exception` logs
\* again, so nothing of the handler answers and the server answers 500
Crash(r) ==
  /\ pc[r] # "done"
  /\ pc[r] = "idle" => Arrives(r)
  /\ pc' = [pc EXCEPT ![r] = "done"]
  /\ response' = [response EXCEPT ![r] = HTTPException(500, "Internal Server Error")]
  /\ UNCHANGED <<urls, clock, request, shortcode, attempts, generated, now, expiry_str, result>>

\* a step of a handler together with the log calls it makes, each send
\* ending in one of the three ways
Observed(r, step) ==
  \E send \in Sends : IF LogRaises(send) THEN Crash(r) ELSE step

NextLog ==
  \/ \E r \in Requests : Observed(r, CreateBegin(r))
  \/ \E r \in Requests : Observed(r, CreateCustom(r))
  \/ \E r \in Requests : Observed(r, CreateGenerate(r))
  \/ \E r \in Requests : Observed(r, CreateExpiry(r))
  \/ \E r \in Requests : Observed(r, CreateSave(r))
  \/ \E r \in Requests : Observed(r, RedirectGet(r))
  \/ \E r \in Requests : Observed(r, RedirectCheck(r))
  \/ \E r \in Requests : Observed(r, RedirectIncrement(r))
  \/ Tick

\* the program with the log calls of its handlers
SpecLog == Init /\ [][NextLog]_vars

(* ------------------------- a failing increment ------------------------- *)

\* increment_count raises (sqlite3.OperationalError: the database is locked
\* by another writer, the disk is full): it has no handler of its own, so
\* the handler's `except Exception` answers 500 and no row is written
RedirectIncrementFails(r) ==
  /\ pc[r] = "increment"
  /\ response' = [response EXCEPT ![r] = HTTPException(500, "Internal server error")]
  /\ pc' = [pc EXCEPT ![r] = "done"]
  /\ UNCHANGED <<urls, clock, request, shortcode, attempts, generated, now, expiry_str, result>>

NextFault ==
  \/ Next
  \/ \E r \in Requests : RedirectIncrementFails(r)

\* the program on a store whose UPDATE may fail
SpecFault == Init /\ [][NextFault]_vars


(* ------------------------------ outcomes ------------------------------- *)

IsPost(r) == request[r].op = "POST"
IsGet(r) == request[r].op = "GET"
Done(r) == pc[r] = "done"

\* the shortcode a request names: the custom one of a POST, the path of a GET
CodeOf(r) == request[r].shortcode.s

\* the failure kinds of the design, as the handlers signal them
InvalidInput(resp) ==
  /\ resp.status = 400
  /\ resp.detail \in {"Invalid URL format", "Invalid validity period",
                      "Shortcode must be 3-20 characters", "Shortcode must be alphanumeric"}
Conflict(resp) == resp.status = 400 /\ resp.detail = "Shortcode already taken"
ExhaustedRetries(resp) == resp.status = 500 /\ resp.detail = "Could not generate shortcode"
InternalError(resp) == resp.status = 500 /\ resp.detail = "Internal server error"
NotFound(resp) == resp.status = 404
Expired(resp) == resp.status = 410
Created(resp) == resp.status = 200
Redirected(resp) == resp.status = 302

(* ------------------------------- claims -------------------------------- *)

\* C1: under every interleaving of concurrent create requests (custom or
\* random shortcode, existence check and insert being separate steps) the
\* table never holds two rows with one shortcode, no step changes the url or
\* expiry of a row that exists, a request is answered 200 only for a
\* shortcode no row held before, and no two requests are answered 200 with
\* the same shortcode.
C1_UniqueCodes ==
  [][/\ \A a, b \in urls' : a.shortcode = b.shortcode => a = b
     /\ \A row \in urls : \E kept \in urls' :
          kept.shortcode = row.shortcode /\ kept.url = row.url /\ kept.expiry = row.expiry
     /\ \A r \in Requests :
          Created(response'[r]) /\ ~Created(response[r])
            => \A row \in urls : row.shortcode # response'[r].shortLink
     /\ \A r, q \in Requests :
          r # q /\ Created(response'[r]) /\ Created(response'[q])
            => response'[r].shortLink # response'[q].shortLink]_vars

\* two requests chose the same shortcode for different urls, both went on
\* to the INSERT, and one of them was answered 200
C1_Witness ==
  \E r, q \in Requests :
    /\ r # q /\ Done(r) /\ Done(q) /\ IsPost(r) /\ IsPost(q)
    /\ shortcode[r] = shortcode[q] /\ request[r].url # request[q].url
    /\ Created(response[r]) /\ InternalError(response[q])

\* C2 as claimed: when two concurrent create requests propose the same
\* shortcode and both pass the existence check before either inserts,
\* exactly one is answered 200 and the other fails with Conflict.
C2_RaceLoserGetsConflict ==
  \A r, q \in Requests :
    ( /\ r # q /\ Done(r) /\ Done(q) /\ IsPost(r) /\ IsPost(q)
      /\ shortcode[r] # Empty /\ shortcode[r] = shortcode[q]
      /\ Created(response[r]) \/ InternalError(response[r])
      /\ Created(response[q]) \/ InternalError(response[q]) )
    => \/ Created(response[r]) /\ Conflict(response[q])
       \/ Created(response[q]) /\ Conflict(response[r])


\* the requests that resolved shortcode `code` and were answered 302
Resolved(code) ==
  {r \in Requests : IsGet(r) /\ Done(r) /\ Redirected(response[r]) /\ CodeOf(r) = code}

\* the smallest access_count the requests of S read with get_url
EarliestRead(S) ==
  CHOOSE n \in {result[r].access_count : r \in S} :
    \A m \in {result[r].access_count : r \in S} : n <= m

\* C3: when N resolves of one shortcode have succeeded, however they were
\* interleaved, the stored access_count is its value when the earliest of
\* them read the row plus exactly N (no increment is lost).
C3_CounterExact ==
  \A row \in urls :
    Resolved(row.shortcode) # {}
      => row.access_count
           = EarliestRead(Resolved(row.shortcode)) + Cardinality(Resolved(row.shortcode))

\* two resolves read the same access_count (neither had incremented when
\* the other read) and both were answered 302
C3_Witness ==
  \E r, q \in Requests :
    /\ r # q /\ r \in Resolved(CodeOf(r)) /\ q \in Resolved(CodeOf(r))
    /\ result[r].access_count = result[q].access_count
    /\ \E row \in urls :
         row.shortcode = CodeOf(r) /\ row.access_count = result[r].access_count + 2

\* the expiry instant of the row stored for `code`
ExpiresAt(code) == strptime((CHOOSE row \in urls : row.shortcode = code).expiry)

\* a resolve that has made its expiry check
Checked(r) == IsGet(r) /\ result[r].found /\ pc[r] \in {"increment", "done"}

\* a resolve that passed its expiry check
Passed(r) == Checked(r) /\ (pc[r] = "increment" \/ Redirected(response[r]))

\* C4: for a shortcode that has a row and a clock that never goes back, a
\* resolve passes the expiry check, and is then answered 302, if and only if
\* the clock it read is <= the stored expiry (equality included), it is
\* answered 410 otherwise, and a resolve that read the clock no earlier
\* than one answered 410 for the same shortcode does not pass.
C4_ExpiryMonotone ==
  \A r \in Requests :
    Checked(r)
      => /\ Passed(r) <=> (now[r] <= ExpiresAt(CodeOf(r)))
         /\ (Done(r) /\ Expired(response[r])) <=> (now[r] > ExpiresAt(CodeOf(r)))
         /\ Done(r) => (Redirected(response[r]) \/ Expired(response[r]))
         /\ \A q \in Requests :
              (Checked(q) /\ CodeOf(q) = CodeOf(r) /\ Expired(response[q]) /\ now[r] >= now[q])
                => ~Passed(r)

\* a resolve was answered 302 having read the clock at the very instant of
\* the expiry, and a resolve of the same shortcode that read it later was
\* answered 410
C4_Witness ==
  \E r, q \in Requests :
    /\ Checked(r) /\ Done(r) /\ Redirected(response[r])
    /\ now[r] = ExpiresAt(CodeOf(r))
    /\ Checked(q) /\ CodeOf(q) = CodeOf(r) /\ Expired(response[q]) /\ now[q] > now[r]

\* C5: a resolve is answered 404 exactly when get_url finds no row for the
\* shortcode, and 410 exactly when there is a row and the clock read at the
\* check is past its expiry; a shortcode with no row is never answered 410.
C5_NotFoundVersusExpired ==
  [][\A r \in Requests :
       /\ (pc[r] = "idle" /\ IsGet(r)')
            => /\ NotFound(response'[r]) <=> ~\E row \in urls : row.shortcode = CodeOf(r)'
               /\ NotFound(response'[r]) <=> Done(r)'
               /\ ~Expired(response'[r])
       /\ (pc[r] = "check" /\ pc'[r] # "check")
            => /\ \E row \in urls : row.shortcode = CodeOf(r)
               /\ Expired(response'[r]) <=> (clock > ExpiresAt(CodeOf(r)))
               /\ ~NotFound(response'[r])
       /\ (IsGet(r)' /\ Expired(response'[r]))
            => \E row \in urls' : row.shortcode = CodeOf(r)']_vars

\* one resolve was answered 404 for a shortcode without a row while
\* another was answered 410 for a shortcode with an expired row
C5_Witness ==
  \E r, q \in Requests :
    /\ IsGet(r) /\ Done(r) /\ NotFound(response[r])
    /\ ~\E row \in urls : row.shortcode = CodeOf(r)
    /\ IsGet(q) /\ Done(q) /\ Expired(response[q])
    /\ \E row \in urls : row.shortcode = CodeOf(q) /\ clock > strptime(row.expiry)


\* the destination rule of the design: starts with http:// or https://
StartsHttp(url) ==
  \E n \in {Len(HttpPrefix), Len(HttpsPrefix)} :
    Len(url) >= n /\ SubSeq(url, 1, n) \in {HttpPrefix, HttpsPrefix}

\* the validity rule of the design: 1 minute to 1 year
InRange(validity) == validity >= MinValidity /\ validity <= MaxValidity

\* the alias rule of the design: 3 to 20 ASCII letters and digits
WellFormedAlias(s) == Len(s) >= MinCodeLen /\ Len(s) <= MaxCodeLen /\ IsAsciiAlnum(s)

\* C6: a create request whose url does not start with http:// or https://,
\* or whose validity is outside [1, 525600], is answered InvalidInput at
\* once, whatever its shortcode, and the table is left as it was; validity 1
\* and 525600 with a good url are not rejected for url or validity; a
\* request that was answered stays answered.
C6_InvalidInputRejected ==
  [][\A r \in Requests :
       /\ (pc[r] = "idle" /\ IsPost(r)')
            => /\ (~StartsHttp(request'[r].url) \/ ~InRange(request'[r].validity))
                    => Done(r)' /\ InvalidInput(response'[r]) /\ urls' = urls
               /\ (StartsHttp(request'[r].url) /\ InRange(request'[r].validity))
                    => response'[r].detail \notin {"Invalid URL format", "Invalid validity period"}
       /\ Done(r) => Done(r)' /\ response'[r] = response[r]]_vars

\* requests with validity 0 and 525601 were both answered InvalidInput
C6_Witness ==
  \E r, q \in Requests :
    /\ IsPost(r) /\ Done(r) /\ request[r].validity = 0 /\ StartsHttp(request[r].url)
    /\ InvalidInput(response[r])
    /\ IsPost(q) /\ Done(q) /\ request[q].validity = MaxValidity + 1
    /\ InvalidInput(response[q])

\* a create request with a good url, a good validity and a shortcode given
AliasGiven(req) ==
  /\ req.op = "POST" /\ StartsHttp(req.url) /\ InRange(req.validity)
  /\ req.shortcode.given /\ Len(req.shortcode.s) > 0

\* C7 as claimed: a create request with good url and validity and a
\* shortcode whose length is outside [3, 20] or that holds a character that
\* is not an ASCII letter or digit is answered InvalidInput; otherwise, when
\* a row with that shortcode exists, it is answered Conflict; the table is
\* unchanged in both cases.
C7_AliasRejected ==
  [][\A r \in Requests :
       /\ (pc[r] = "idle" /\ AliasGiven(request'[r]) /\ ~WellFormedAlias(CodeOf(r)'))
            => Done(r)' /\ InvalidInput(response'[r]) /\ urls' = urls
       /\ (pc[r] = "exists" /\ pc'[r] # "exists" /\ WellFormedAlias(CodeOf(r))
           /\ \E row \in urls : row.shortcode = CodeOf(r))
            => Done(r)' /\ Conflict(response'[r]) /\ urls' = urls]_vars

\* C8: a create request with good url and validity and a well-formed custom
\* shortcode never draws a random candidate and goes on with exactly that
\* shortcode; it is answered 200 with that shortcode and its row is stored,
\* unless a row with that shortcode exists (it was there at the existence
\* check, or another request inserted it first).
C8_CustomCodeUsed ==
  \A r \in Requests :
    (AliasGiven(request[r]) /\ WellFormedAlias(CodeOf(r)))
      => /\ generated[r] = 0
         /\ pc[r] \in {"expiry", "save"} => shortcode[r] = CodeOf(r)
         /\ Done(r)
              => \/ /\ Created(response[r])
                    /\ response[r].shortLink = CodeOf(r)
                    /\ \E row \in urls : row.shortcode = CodeOf(r) /\ row.url = request[r].url
                 \/ /\ Conflict(response[r]) \/ InternalError(response[r])
                    /\ \E row \in urls : row.shortcode = CodeOf(r)

\* a request with a custom shortcode was answered 200 with that shortcode
C8_Witness ==
  \E r \in Requests :
    /\ AliasGiven(request[r]) /\ WellFormedAlias(CodeOf(r)) /\ Done(r)
    /\ Created(response[r]) /\ response[r].shortLink = CodeOf(r)

\* a create request with good url and validity and no shortcode given
NoAlias(req) ==
  /\ req.op = "POST" /\ StartsHttp(req.url) /\ InRange(req.validity)
  /\ ~(req.shortcode.given /\ Len(req.shortcode.s) > 0)

\* C9: on the random path a request draws at most 10 candidates; its
\* steps up to and including a draw change no row; the candidate is accepted
\* exactly when no row holds it, so the accepted one is the first that is
\* free; the request fails with ExhaustedRetries (status 500, neither
\* InvalidInput nor Conflict) exactly when the tenth candidate in a row is
\* taken, and it then never came to the INSERT.
C9_BoundedRetries ==
  [][\A r \in Requests :
       NoAlias(request'[r])
         => /\ generated'[r] <= MaxAttempts
            /\ (pc[r] \in {"idle", "generate"} /\ (pc'[r] # pc[r] \/ generated'[r] # generated[r]))
                 => urls' = urls
            /\ generated'[r] # generated[r]
                 => /\ generated'[r] = generated[r] + 1
                    /\ (pc'[r] = "expiry") <=> ~\E row \in urls : row.shortcode = shortcode'[r]
                    /\ Done(r)' <=> /\ generated'[r] = MaxAttempts
                                    /\ \E row \in urls : row.shortcode = shortcode'[r]
                    /\ Done(r)' => ExhaustedRetries(response'[r])
            /\ ExhaustedRetries(response'[r])
                 => /\ generated'[r] = MaxAttempts /\ attempts'[r] = MaxAttempts
                    /\ response'[r].status >= 500
                    /\ ~InvalidInput(response'[r]) /\ ~Conflict(response'[r])
                    /\ expiry_str'[r] = NoExpiry
            /\ (pc'[r] \in {"expiry", "save"} \/ Created(response'[r]) \/ InternalError(response'[r]))
                 => generated'[r] = attempts'[r] + 1]_vars

\* a request drew 10 candidates, all taken, and was answered
\* ExhaustedRetries while the table still is the one the run started with
C9_Witness ==
  \E r \in Requests :
    /\ NoAlias(request[r]) /\ Done(r) /\ ExhaustedRetries(response[r])
    /\ generated[r] = MaxAttempts /\ urls \in InitialTables

\* C10: after a create request was answered 200 with a shortcode, the row
\* of that shortcode holds the url of the request and the expiry of the
\* answer, and its access_count is the number of resolves answered 302 (0
\* when new, 1 after the first); a resolve that found the row is answered
\* 302 with exactly that url when the clock it read is <= the expiry, and
\* 410 when the clock it read is past it.
C10_RoundTrip ==
  \A q \in Requests :
    (IsPost(q) /\ Done(q) /\ Created(response[q]))
      => /\ \E row \in urls :
              /\ row.shortcode = response[q].shortLink
              /\ row.url = request[q].url
              /\ row.expiry = response[q].expiry
              /\ row.access_count = Cardinality(Resolved(response[q].shortLink))
         /\ \A r \in Requests :
              (Checked(r) /\ Done(r) /\ CodeOf(r) = response[q].shortLink)
                => /\ now[r] <= strptime(response[q].expiry)
                        => Redirected(response[r]) /\ response[r].location = request[q].url
                   /\ now[r] > strptime(response[q].expiry) => Expired(response[r])

\* a shortcode was created and its first resolve was answered 302 with the
\* url of the create request, leaving access_count at 1
C10_Witness ==
  \E q, r \in Requests :
    /\ IsPost(q) /\ Done(q) /\ Created(response[q])
    /\ Checked(r) /\ Done(r) /\ CodeOf(r) = response[q].shortLink
    /\ Redirected(response[r]) /\ response[r].location = request[q].url
    /\ \E row \in urls : row.shortcode = CodeOf(r) /\ row.access_count = 1


\* the row stored for the shortcode a create request was answered with
StoredFor(q) == CHOOSE row \in urls : row.shortcode = response[q].shortLink

\* a create request that was answered 200
Allocated(q) == IsPost(q) /\ Done(q) /\ Created(response[q])

\* C11 as claimed: on every create answered 200 the expiry returned equals
\* the expiry stored, and both are the instant the request read from the
\* clock plus its validity in minutes.
C11_ExpiryIsNowPlusValidity ==
  \A q \in Requests :
    Allocated(q)
      => /\ response[q].expiry = StoredFor(q).expiry
         /\ strptime(response[q].expiry) = now[q] + request[q].validity * MinuteTicks

\* C11 amended: on every create answered 200 the expiry returned equals the
\* expiry stored, and both are the instant the request read from the clock
\* plus its validity in minutes cut down to the whole second: never after
\* that instant and less than one second before it.
C11_ExpiryIsNowPlusValidityInSeconds ==
  \A q \in Requests :
    Allocated(q)
      => /\ response[q].expiry = StoredFor(q).expiry
         /\ strptime(response[q].expiry) <= now[q] + request[q].validity * MinuteTicks
         /\ now[q] + request[q].validity * MinuteTicks < strptime(response[q].expiry) + TicksPerSec

\* a create that read the clock inside a second was answered 200 with an
\* expiry before clock + validity, and it is the expiry stored
C11_Witness ==
  \E q \in Requests :
    /\ Allocated(q)
    /\ response[q].expiry = StoredFor(q).expiry
    /\ strptime(response[q].expiry) < now[q] + request[q].validity * MinuteTicks


\* C12: a resolve that found its row and passed the expiry check is answered
\* with the redirect to the row's url, whether or not its increment
\* completed.
C12_IncrementFailureTolerated ==
  \A r \in Requests :
    (IsGet(r) /\ Done(r) /\ result[r].found /\ now[r] # NoTime
       /\ now[r] <= strptime(result[r].expiry))
      => /\ Redirected(response[r])
         /\ response[r].location = result[r].url


\* the rows of a table with their access_count left out
Bindings(table) == {[shortcode |-> row.shortcode, url |-> row.url, expiry |-> row.expiry] : row \in table}

\* the request whose handler takes the step
Steps(r) == pc'[r] # pc[r]

\* C13: no step of any create or redirect, answered 200 or not, changes the
\* url or the expiry of a row or removes a row; a step of a redirect adds no
\* row and changes at most the access_count of the row of its own shortcode.
C13_Frame ==
  [][ /\ Bindings(urls) \subseteq Bindings(urls')
      /\ \A row \in urls : \E after \in urls' :
           /\ after.shortcode = row.shortcode
           /\ after.url = row.url
           /\ after.expiry = row.expiry
      /\ \A r \in Requests :
           (Steps(r) /\ IsGet(r)')
             => /\ Bindings(urls') = Bindings(urls)
                /\ \A row \in urls : row.shortcode # CodeOf(r)' => row \in urls'
                /\ Cardinality(urls') = Cardinality(urls)
    ]_vars

\* a redirect was answered 302 on a table of several rows: its row is
\* counted and still has the url and the expiry the redirect read
C13_Witness ==
  \E r \in Requests :
    /\ IsGet(r) /\ Done(r) /\ Redirected(response[r])
    /\ Cardinality(urls) > 1
    /\ \E row \in urls :
         /\ row.shortcode = CodeOf(r)
         /\ row.url = result[r].url
         /\ row.expiry = result[r].expiry
         /\ row.access_count > result[r].access_count


\* C14: every row's access_count is a non-negative integer and never goes
\* down; it goes up, by exactly 1, only at the increment step of a redirect
\* that found the row and read a clock <= the row's expiry at its check; the
\* step that answers a redirect 404 or 410 leaves the whole table unchanged.
C14_CountMonotone ==
  /\ [](\A row \in urls : row.access_count \in Nat)
  /\ [][ /\ \A row \in urls : \E after \in urls' :
              /\ after.shortcode = row.shortcode
              /\ after.access_count >= row.access_count
              /\ after.access_count # row.access_count
                   => /\ after.access_count = row.access_count + 1
                      /\ \E r \in Requests :
                           /\ Steps(r) /\ IsGet(r) /\ pc[r] = "increment"
                           /\ CodeOf(r) = row.shortcode
                           /\ result[r].found
                           /\ now[r] # NoTime
                           /\ now[r] <= strptime(row.expiry)
                           /\ Redirected(response'[r])
         /\ \A r \in Requests :
              (Steps(r) /\ IsGet(r)' /\ (NotFound(response'[r]) \/ Expired(response'[r])))
                => urls' = urls
       ]_vars

\* one redirect of a shortcode was answered 302 and counted, another one of
\* the same shortcode was answered 410 and the count is still the first's
C14_Witness ==
  \E r, q \in Requests :
    /\ IsGet(r) /\ Done(r) /\ Redirected(response[r])
    /\ IsGet(q) /\ Done(q) /\ Expired(response[q])
    /\ CodeOf(q) = CodeOf(r)
    /\ result[q].access_count = result[r].access_count + 1
    /\ \E row \in urls :
         /\ row.shortcode = CodeOf(r)
         /\ row.access_count = result[r].access_count + 1


\* C15: in every reachable state every row's shortcode is 3 to 20
\* characters long and made of the 62 letters and digits only, and every
\* row's url begins with http:// or https://.
C15_StoreWellFormed ==
  \A row \in urls :
    /\ WellFormedAlias(row.shortcode)
    /\ StartsHttp(row.url)


\* a create request whose shortcode is the empty string
EmptyAlias(q) == IsPost(q) /\ request[q].shortcode = Str(Empty)

\* C16: a create request whose shortcode is "" is handled as one without
\* shortcode: it never reaches the custom shortcode check, it is never
\* answered InvalidInput or Conflict, and it ends either answered 200 with a
\* generated shortcode of 6 letters and digits or with ExhaustedRetries.
C16_EmptyAliasIsNoAlias ==
  \A q \in Requests :
    EmptyAlias(q)
      => /\ pc[q] # "exists"
         /\ Done(q)
              => /\ ~InvalidInput(response[q])
                 /\ ~Conflict(response[q])
                 /\ \/ /\ Created(response[q])
                       /\ Len(response[q].shortLink) = 6
                       /\ IsAsciiAlnum(response[q].shortLink)
                    \/ ExhaustedRetries(response[q])


\* C17: under fair scheduling every request that was received is
\* eventually answered, whatever the other requests do; the loop of a
\* create makes at most 10 existence checks, and the step that inserts,
\* accepted or refused, is the last step of its request.
C17_Terminates ==
  /\ \A r \in Requests : (pc[r] # "idle") ~> (Done(r) /\ response[r] # NoResponse)
  /\ [](\A r \in Requests : generated[r] <= MaxAttempts /\ attempts[r] <= MaxAttempts)
  /\ [][\A r \in Requests : (pc[r] = "save" /\ Steps(r)) => Done(r)']_vars

\* every request is answered: a create after 10 existence checks that all
\* found a row, next to a redirect
C17_Witness ==
  /\ \A r \in Requests : Done(r) /\ response[r] # NoResponse
  /\ \E q \in Requests :
       /\ ExhaustedRetries(response[q])
       /\ generated[q] = MaxAttempts
  /\ \E r \in Requests : IsGet(r)


\* the arguments of a log call are in the three lists
ValidLogArguments(stack, level, package) ==
  /\ lower(stack) \in stacks
  /\ lower(level) \in levels
  /\ lower(package) \in backend_packages

\* C18: log never raises: with an argument outside the lists it returns
\* False and sends nothing, and when the send raises or is not answered 200
\* it returns False; so every step the handlers take with their log calls,
\* however each send ends, is a step of the handlers without them: the
\* same response and the same change of the table.
C18_ObserverIsTransparent ==
  /\ [](\A stack \in Stacks, level \in Levels, package \in Packages, send \in Sends :
          /\ ~log(stack, level, package, send).raised
          /\ ~ValidLogArguments(stack, level, package)
               => /\ ~log(stack, level, package, send).value
                  /\ ~log(stack, level, package, send).sent
          /\ (send.raises \/ send.status_code # 200)
               => ~log(stack, level, package, send).value)
  /\ [][Next]_vars

\* a create was answered 200 and a redirect 302 by handlers whose log
\* calls return True for one way the send ends and False for the others
C18_Witness ==
  /\ \E q \in Requests : Allocated(q)
  /\ \E r \in Requests : IsGet(r) /\ Done(r) /\ Redirected(response[r])
  /\ \E send \in Sends : log("backend", "info", "handler", send).value
  /\ \E send \in Sends : send.raises /\ ~log("backend", "info", "handler", send).value
  /\ \E send \in Sends : ~send.raises /\ ~log("backend", "error", "db", send).value

====
